---- MODULE Spec2Model ----
(***************************************************************************)
(* Device session and channel-polling lifecycle of usb_can_tool            *)
(* (src/src/can/canbus.rs): CanApp (ControlCAN, family "A") and PcanApp    *)
(* (PCAN, family "B") behind the CanInterface trait.                       *)
(*                                                                         *)
(* One session object is driven by one caller thread; every poller thread  *)
(* spawned by start_receiving is a process with its own position.  The     *)
(* native driver is an external collaborator: each operation draws the     *)
(* statuses the driver answers with from a small set (a mock script).      *)
(***************************************************************************)
EXTENDS Integers, Sequences, FiniteSets, TLC

\* ---------------------------------------------------------------- bounds
MaxChannels == 2   \* longest channel list handed to CanApp::new
MaxThreads  == 2   \* poller threads spawned in one behaviour
MaxFrames   == 1   \* frames the driver delivers in one behaviour
MaxBaud     == 1001   \* largest value a baud field of the GUI holds
MaxCalls    == 2   \* lookups of one baud value in one behaviour
MaxLoads    == 1   \* entries the log buffer may hold beyond its capacity

\* ------------------------------------------------------ program constants
SUCCESS       == 1
PCAN_ERROR_OK == 0
PCAN_NONEBUS  == 0
PCAN_USBBUS1  == 81
DATA_CAPACITY == 8   \* VciCanObj.data / PcanMsg.data are [u8; 8]
DATA_BUFFER_CAPACITY == 1000
LOG_BUFFER_CAPACITY  == 1000

Families == {"A", "B"}
\* the channel ids the GUI starts from (controlcan_ch1, controlcan_ch2)
ChanIds == {0, 1}
\* statuses a native call may answer with: 1 is SUCCESS for ControlCAN and an
\* error for PCAN, 0 is PCAN_ERROR_OK for PCAN and an error for ControlCAN
Statuses == {0, 1}
FrameIds == {256}
\* data_len / len is a u8: an empty frame, a full frame, and a length beyond
\* the 8-byte data array
DataLens == {0, 8, 9}

VARIABLES
    family,              \* which implementation of CanInterface the session is
    can_channels,        \* CanApp.can_channels (ids) / <<PcanApp.channel>>
    is_can_initialized,  \* AtomicBool
    receiving,           \* AtomicBool shared with every poller
    join_handles,        \* Mutex<Vec<JoinHandle>>: thread ids, push order
    threads,             \* the poller threads spawned so far, by thread id
    pc,                  \* position of the caller thread
    dev_open,            \* driver side: a device open succeeded, no close since
    opened_ok,           \* history: outcome of the most recent open/close
    touched,             \* history: threads spawned before the last open/close
    bus,                 \* environment: is there traffic on the CAN bus
    last_method,         \* the method the caller called last
    returned,            \* the call that returned in the step just taken
    lookup,              \* CanGui: a baud-rate field on its way through start_can
    sinks,               \* environment: do log_tx / data_tx still have a receiver
    gui                  \* CanGui: api, is_receiving, can_app, buffer lengths

vars == <<family, can_channels, is_can_initialized, receiving, join_handles,
          threads, pc, dev_open, opened_ok, touched, bus, last_method, returned,
          lookup, sinks, gui>>

Success == IF family = "A" THEN SUCCESS ELSE PCAN_ERROR_OK

ChannelLists ==
    UNION {[1..n -> ChanIds] : n \in 1..MaxChannels}

\* The statuses the driver answers one operation with.
Drv(open, init, board, cfg, close) ==
    [open |-> open, init |-> init, board |-> board, cfg |-> cfg, close |-> close]

NoDrv == Drv(Success, <<>>, Success, <<>>, Success)

\* A returned call: the statuses the driver answered with, the value handed
\* back, the native calls issued and the records sent on log_tx, in order.
\* `again` tells that the caller's previous call was to the same method.
Op(name, drv, result, calls, logs) ==
    [name |-> name, again |-> (last_method = name), drv |-> drv,
     result |-> result, calls |-> calls, logs |-> logs]

Ok == [ok |-> TRUE]

\* no call returned in the step just taken
NoReturn == [name |-> "none", again |-> FALSE, drv |-> NoDrv, result |-> Ok,
             calls |-> <<>>, logs |-> <<>>]

\* the session is driven directly, not through a CanGui
NoGui == [api |-> "none", is_receiving |-> FALSE, can_app |-> "none",
          logs |-> 0, data |-> 0]

\* no baud-rate field is being looked up
NoLookup == [field |-> "none", baud |-> 0, calls |-> <<>>, resolved |-> <<>>,
             logs |-> <<>>]

\* both channels still have their receiver
Attached == [log |-> TRUE, data |-> TRUE]

\* flume::Sender::send on an unbounded channel: it never waits; it answers
\* Err(SendError) once every receiver has been dropped
send(attached) == IF attached THEN "Ok" ELSE "Disconnected"

\* variant: `tx.send(..).unwrap()`, a failed send panics the sending thread
discard_Unwrap(result, next) == IF result = "Ok" THEN next ELSE "panicked"

\* `let _ = tx.send(..)`: the result is dropped and the thread goes on to
\* the position `next`
discard(result, next) == next

\* the sends of a caller operation, all on log_tx: where the caller is after
\* the last of them
after_sends(logs, next) ==
    IF logs = <<>> THEN next ELSE discard(send(sinks.log), next)

Terminated(t) == threads[t].pc \in {"done", "panicked"}
Live == {t \in DOMAIN threads : ~Terminated(t)}

Session ==
    /\ family \in Families
    /\ can_channels \in IF family = "A" THEN ChannelLists ELSE {<<PCAN_USBBUS1>>}
    /\ is_can_initialized = FALSE
    /\ receiving = FALSE
    /\ join_handles = <<>>
    /\ threads = <<>>
    /\ pc = "idle"
    /\ dev_open = FALSE
    /\ opened_ok = FALSE
    /\ touched = 0
    /\ last_method = "new"
    /\ returned = NoReturn
    /\ lookup = NoLookup
    /\ sinks = Attached
    /\ gui = NoGui

\* a session on a silent bus: no frame ever arrives, the driver may answer
\* every call of the session with any status
Init == Session /\ bus = "silent"

\* a session with distinct channels on a bus with traffic, on a device whose
\* open, init, board-info and configuration calls succeed
DistinctChannels ==
    \A i, j \in DOMAIN can_channels : can_channels[i] = can_channels[j] => i = j

InitTraffic == Session /\ bus = "traffic" /\ DistinctChannels

\* a session with the one channel <<0>> (CanApp) or <<PCAN_USBBUS1>> (PcanApp)
\* on a bus on which frames arrive back to back
InitBurst ==
    Session /\ bus = "burst" /\ can_channels \in {<<0>>, <<PCAN_USBBUS1>>}

\* --------------------------------------------------------------- records
Call(fn) == [fn |-> fn]
CallCh(fn, channel) == [fn |-> fn, channel |-> channel]
Log(msg) == [msg |-> msg]
LogCh(msg, channel) == [msg |-> msg, channel |-> channel]
LogSt(msg, status) == [msg |-> msg, status |-> status]
LogChSt(msg, channel, status) == [msg |-> msg, channel |-> channel, status |-> status]

\* What one call of a session method did: the value it returned, the native
\* calls it issued, the records it sent on log_tx, and the value it stored
\* into is_can_initialized ("keep" when it stored none).
Effect(result, calls, logs, init) ==
    [result |-> result, calls |-> calls, logs |-> logs, init |-> init]

\* ------------------------------------------------------------ CanApp (A)
\* variant: close_device returns at once when the session is not initialized
CanApp_close_device_Guarded(drv) ==
    IF is_can_initialized
    THEN Effect(Ok,
                <<Call("vci_close_device")>>,
                <<LogSt("Device closed, Status", drv.close)>>,
                "false")
    ELSE Effect(Ok, <<>>, <<>>, "keep")

\* close_device: unconditional native close, one status record, flag := false
CanApp_close_device(drv) ==
    Effect(Ok,
           <<Call("vci_close_device")>>,
           <<LogSt("Device closed, Status", drv.close)>>,
           "false")

\* variant: the flag is stored only once the board-info read has succeeded
CanApp_open_tail_LateStore(drv, calls, logs) ==
    IF drv.board # SUCCESS
    THEN Effect([ok |-> FALSE, err |-> "Failed to read board info"],
                Append(calls, Call("vci_read_board_info")),
                Append(logs, Log("Read board failed")),
                "keep")
    ELSE Effect(Ok,
                Append(calls, Call("vci_read_board_info")),
                Append(logs, Log("Board info")),
                "keep")

\* variant: the board-info read is best-effort, its failure is only logged
CanApp_open_tail_BestEffort(drv, calls, logs) ==
    Effect(Ok,
           Append(calls, Call("vci_read_board_info")),
           Append(logs, IF drv.board # SUCCESS THEN Log("Read board failed")
                                               ELSE Log("Board info")),
           "true")

\* variant: the board-info read comes first, the flag is stored after a
\* read that succeeded
CanApp_open_tail_ReadFirst(drv, calls, logs) ==
    IF drv.board # SUCCESS
    THEN Effect([ok |-> FALSE, err |-> "Failed to read board info"],
                Append(calls, Call("vci_read_board_info")),
                Append(logs, Log("Read board failed")),
                "keep")
    ELSE Effect(Ok,
                Append(calls, Call("vci_read_board_info")),
                Append(logs, Log("Board info")),
                "true")

\* the body of open_device after the channel loop: store true, read board info
CanApp_open_tail(drv, calls, logs) ==
    IF drv.board # SUCCESS
    THEN Effect([ok |-> FALSE, err |-> "Failed to read board info"],
                Append(calls, Call("vci_read_board_info")),
                Append(logs, Log("Read board failed")),
                "true")
    ELSE Effect(Ok,
                Append(calls, Call("vci_read_board_info")),
                Append(logs, Log("Board info")),
                "true")

\* variant: a failed init clears the flag and returns without closing the device
RECURSIVE CanApp_init_loop_NoRollback(_, _, _, _, _)
CanApp_init_loop_NoRollback(chans, drv, i, calls, logs) ==
    IF i > Len(chans)
    THEN CanApp_open_tail(drv, calls, logs)
    ELSE IF drv.init[i] # SUCCESS
         THEN LET e == LogCh("CAN Ch initialization failed", chans[i])
              IN  Effect([ok |-> FALSE, err |-> e.msg, channel |-> e.channel],
                         Append(calls, CallCh("vci_init_can", chans[i])),
                         Append(logs, e),
                         "false")
         ELSE CanApp_init_loop_NoRollback(chans, drv, i + 1,
                               Append(calls, CallCh("vci_init_can", chans[i])),
                               Append(logs, LogCh("CAN Ch initialized", chans[i])))

\* variant: a failed init is logged and the loop goes on to the next channel
RECURSIVE CanApp_init_loop_Continue(_, _, _, _, _)
CanApp_init_loop_Continue(chans, drv, i, calls, logs) ==
    IF i > Len(chans)
    THEN CanApp_open_tail(drv, calls, logs)
    ELSE CanApp_init_loop_Continue(chans, drv, i + 1,
              Append(calls, CallCh("vci_init_can", chans[i])),
              Append(logs, IF drv.init[i] # SUCCESS
                           THEN LogCh("CAN Ch initialization failed", chans[i])
                           ELSE LogCh("CAN Ch initialized", chans[i])))

\* the `for &(channel, baud_rate) in &self.can_channels` loop of open_device,
\* from index i on; the first failing init_channel logs, closes the device
\* and returns the error
RECURSIVE CanApp_init_loop(_, _, _, _, _)
CanApp_init_loop(chans, drv, i, calls, logs) ==
    IF i > Len(chans)
    THEN CanApp_open_tail(drv, calls, logs)
    ELSE IF drv.init[i] # SUCCESS
         THEN LET e == LogCh("CAN Ch initialization failed", chans[i])
                  c == CanApp_close_device(drv)
              IN  Effect([ok |-> FALSE, err |-> e.msg, channel |-> e.channel],
                         Append(calls, CallCh("vci_init_can", chans[i])) \o c.calls,
                         Append(logs, e) \o c.logs,
                         c.init)
         ELSE CanApp_init_loop(chans, drv, i + 1,
                               Append(calls, CallCh("vci_init_can", chans[i])),
                               Append(logs, LogCh("CAN Ch initialized", chans[i])))

\* variant: a failed device open is tried a second time
CanApp_open_device_Retry(chans, drv) ==
    IF drv.open # SUCCESS
    THEN Effect([ok |-> FALSE, err |-> "Device open failed", status |-> drv.open],
                <<Call("vci_open_device"), Call("vci_open_device")>>,
                <<LogSt("Device open failed, Error Code", drv.open),
                  LogSt("Device open failed, Error Code", drv.open)>>,
                "keep")
    ELSE CanApp_init_loop(chans, drv, 1,
                          <<Call("vci_open_device")>>,
                          <<Log("Device opened successfully")>>)

\* variant: a failed device open closes the device and clears the flag
CanApp_open_device_CloseOnFail(chans, drv) ==
    IF drv.open # SUCCESS
    THEN Effect([ok |-> FALSE, err |-> "Device open failed", status |-> drv.open],
                <<Call("vci_open_device"), Call("vci_close_device")>>,
                <<LogSt("Device open failed, Error Code", drv.open)>>,
                "false")
    ELSE CanApp_init_loop(chans, drv, 1,
                          <<Call("vci_open_device")>>,
                          <<Log("Device opened successfully")>>)

\* open_device: device open, then the channel loop
CanApp_open_device(chans, drv) ==
    IF drv.open # SUCCESS
    THEN Effect([ok |-> FALSE, err |-> "Device open failed", status |-> drv.open],
                <<Call("vci_open_device")>>,
                <<LogSt("Device open failed, Error Code", drv.open)>>,
                "keep")
    ELSE CanApp_init_loop(chans, drv, 1,
                          <<Call("vci_open_device")>>,
                          <<Log("Device opened successfully")>>)

\* variant: the board-info read is issued whatever is_can_initialized holds
CanApp_read_board_info_Unguarded(initialized, drv) ==
    Effect(Ok, <<Call("vci_read_board_info")>>,
           <<IF drv.board # SUCCESS THEN Log("Read board failed")
                                    ELSE Log("Board info")>>,
           "keep")

\* read_board_info: refused with one error record unless is_can_initialized
CanApp_read_board_info(initialized, drv) ==
    IF ~initialized
    THEN Effect(Ok, <<>>,
                <<Log("Error: CAN not initialized; cannot read board info")>>,
                "keep")
    ELSE Effect(Ok, <<Call("vci_read_board_info")>>,
                <<IF drv.board # SUCCESS THEN Log("Read board failed")
                                         ELSE Log("Board info")>>,
                "keep")

\* ----------------------------------------------------------- PcanApp (B)
PcanApp_close_device(chans, drv) ==
    Effect(Ok,
           <<CallCh("can_uninitialize", chans[1])>>,
           <<LogSt("PCAN device closed, status", drv.close)>>,
           "false")

\* configure_channel: three CAN_SetValue calls, each logs its outcome only
PcanApp_configure_channel(chans, drv) ==
    [calls |-> <<[fn |-> "can_set_value", channel |-> chans[1], param |-> 4],
                 [fn |-> "can_set_value", channel |-> chans[1], param |-> 8],
                 [fn |-> "can_set_value", channel |-> chans[1], param |-> 7]>>,
     logs  |-> <<IF drv.cfg[1] # PCAN_ERROR_OK
                 THEN Log("Failed to enable message filter.")
                 ELSE Log("PCAN message filter enabled."),
                 IF drv.cfg[2] # PCAN_ERROR_OK
                 THEN Log("Failed to disable listen-only mode.")
                 ELSE Log("PCAN listen-only mode disabled."),
                 IF drv.cfg[3] # PCAN_ERROR_OK
                 THEN Log("Failed to enable Bus-Off auto-reset.")
                 ELSE Log("Bus-Off auto-reset enabled.")>>]

\* variant: a failed configuration call makes open_device return its error
PcanApp_open_device_Strict(chans, drv) ==
    LET pre == <<CallCh("can_uninitialize", PCAN_NONEBUS),
                 CallCh("can_initialize", chans[1])>>
        cfg == PcanApp_configure_channel(chans, drv)
    IN  IF drv.open # PCAN_ERROR_OK
        THEN Effect([ok |-> FALSE, err |-> "PCAN initialization failed",
                     status |-> drv.open],
                    pre,
                    <<LogSt("PCAN initialization failed, error code", drv.open)>>,
                    "keep")
        ELSE Effect(IF \A i \in DOMAIN drv.cfg : drv.cfg[i] = PCAN_ERROR_OK
                    THEN Ok
                    ELSE [ok |-> FALSE, err |-> "PCAN configuration failed"],
                    pre \o cfg.calls,
                    <<LogCh("PCAN channel initialized", chans[1])>> \o cfg.logs,
                    "true")

\* initialize_channel (force_close_internal, then CAN_Initialize) followed by
\* the body of open_device
PcanApp_open_device(chans, drv) ==
    LET pre == <<CallCh("can_uninitialize", PCAN_NONEBUS),
                 CallCh("can_initialize", chans[1])>>
        cfg == PcanApp_configure_channel(chans, drv)
    IN  IF drv.open # PCAN_ERROR_OK
        THEN Effect([ok |-> FALSE, err |-> "PCAN initialization failed",
                     status |-> drv.open],
                    pre,
                    <<LogSt("PCAN initialization failed, error code", drv.open)>>,
                    "keep")
        ELSE Effect(Ok,
                    pre \o cfg.calls,
                    <<LogCh("PCAN channel initialized", chans[1])>> \o cfg.logs,
                    "true")

PcanApp_read_board_info(chans, initialized, drv) ==
    IF ~initialized
    THEN Effect(Ok, <<>>,
                <<Log("Error: PCAN device not initialized; cannot read board info")>>,
                "keep")
    ELSE Effect(Ok, <<CallCh("can_get_value", chans[1])>>,
                <<IF drv.board = PCAN_ERROR_OK THEN Log("PCAN API Version")
                  ELSE Log("Failed to read PCAN board info")>>,
                "keep")

\* ------------------------------------------------------- driver (external)
IsOpenCall(c)  == c.fn \in {"vci_open_device", "can_initialize"}
IsCloseCall(c) == c.fn \in {"vci_close_device", "can_uninitialize"}

\* The device as the driver sees it after the calls of one operation: a
\* successful open leaves it open, every close/uninitialize leaves it closed.
RECURSIVE DeviceAfter(_, _, _)
DeviceAfter(open, calls, openStatusOk) ==
    IF calls = <<>> THEN open
    ELSE DeviceAfter(IF IsCloseCall(Head(calls)) THEN FALSE
                     ELSE IF IsOpenCall(Head(calls)) THEN open \/ openStatusOk
                     ELSE open,
                     Tail(calls), openStatusOk)

StoreInit(e) ==
    CASE e.init = "true"  -> TRUE
      [] e.init = "false" -> FALSE
      [] OTHER            -> is_can_initialized

\* a poller spawned before the caller's last open_device or close_device:
\* if it still runs, the device has been closed or reopened under it
Stale(t) == t <= touched

AllInitOk(drv) == \A i \in DOMAIN drv.init : drv.init[i] = SUCCESS

\* ------------------------------------------------------- caller operations
\* The scripts open_device is run against.  `board` is the status the driver
\* answers a board-info read with.  A native call that follows a failed one
\* in CanApp::open_device is never issued, and neither is the rollback close
\* when no init fails: the script leaves those entries at the success value.
FirstFailure(init) ==
    IF \A i \in DOMAIN init : init[i] = SUCCESS THEN 0
    ELSE CHOOSE i \in DOMAIN init :
            /\ init[i] # SUCCESS
            /\ \A j \in 1..(i - 1) : init[j] = SUCCESS

Scripted(drv) ==
    LET k == FirstFailure(drv.init)
    IN  /\ drv.open # SUCCESS => k = 0 /\ drv.board = SUCCESS
        /\ k # 0 => /\ drv.board = SUCCESS
                    /\ \A j \in (k + 1)..Len(drv.init) : drv.init[j] = SUCCESS
        /\ k = 0 => drv.close = SUCCESS

Healthy(drv) ==
    /\ drv.open = Success /\ drv.board = Success
    /\ \A i \in DOMAIN drv.init : drv.init[i] = Success
    /\ \A i \in DOMAIN drv.cfg : drv.cfg[i] = Success

AllPlans ==
    IF family = "A"
    THEN {drv \in {Drv(o, i, b, <<>>, c) :
                      o \in Statuses, i \in [1..Len(can_channels) -> Statuses],
                      b \in Statuses, c \in Statuses} : Scripted(drv)}
    ELSE {Drv(o, <<>>, b, g, PCAN_ERROR_OK) :
             o \in Statuses, b \in Statuses, g \in [1..3 -> Statuses]}

OpenPlans ==
    IF bus = "silent" THEN AllPlans ELSE {drv \in AllPlans : Healthy(drv)}

OpenDevice ==
    /\ pc = "idle"
    /\ \E drv \in OpenPlans :
          LET e == IF family = "A" THEN CanApp_open_device(can_channels, drv)
                                   ELSE PcanApp_open_device(can_channels, drv)
          IN  /\ is_can_initialized' = StoreInit(e)
              /\ dev_open' = DeviceAfter(dev_open, e.calls, drv.open = Success)
              /\ opened_ok' = (drv.open = Success /\ AllInitOk(drv))
              /\ returned' = Op("open_device", drv, e.result, e.calls, e.logs)
              /\ pc' = after_sends(e.logs, "idle")
    /\ last_method' = "open_device"
    /\ touched' = Len(threads)
    /\ UNCHANGED <<gui, sinks, lookup, family, can_channels, bus, receiving,
                   join_handles, threads>>

CloseDevice ==
    /\ pc = "idle"
    /\ \E c \in Statuses :
          LET drv == Drv(Success, <<>>, Success, <<>>, c)
              e == IF family = "A" THEN CanApp_close_device(drv)
                                   ELSE PcanApp_close_device(can_channels, drv)
          IN  /\ is_can_initialized' = StoreInit(e)
              /\ dev_open' = DeviceAfter(dev_open, e.calls, FALSE)
              /\ returned' = Op("close_device", drv, e.result, e.calls, e.logs)
              /\ pc' = after_sends(e.logs, "idle")
    /\ last_method' = "close_device"
    /\ opened_ok' = FALSE
    /\ touched' = Len(threads)
    /\ UNCHANGED <<gui, sinks, lookup, family, can_channels, bus, receiving,
                   join_handles, threads>>

ReadBoardInfo ==
    /\ pc = "idle"
    /\ \E b \in IF bus = "silent" THEN Statuses ELSE {Success} :
          LET drv == Drv(Success, <<>>, b, <<>>, Success)
              e == IF family = "A"
                   THEN CanApp_read_board_info(is_can_initialized, drv)
                   ELSE PcanApp_read_board_info(can_channels, is_can_initialized, drv)
          IN  /\ is_can_initialized' = StoreInit(e)
              /\ returned' = Op("read_board_info", drv, e.result, e.calls, e.logs)
              /\ pc' = after_sends(e.logs, "idle")
    /\ last_method' = "read_board_info"
    /\ UNCHANGED <<gui, sinks, lookup, family, can_channels, bus, receiving,
                   join_handles, threads, dev_open, opened_ok, touched>>

\* poller threads spawned in one behaviour: on a bus with back-to-back frames
\* one fewer, the frames taking their place
ThreadBudget == IF bus = "burst" THEN MaxThreads - 1 ELSE MaxThreads

\* a freshly spawned poller: the closure passed to thread::spawn has not run
NewThread(channel) ==
    [channel |-> channel,
     pc      |-> IF family = "A" THEN "start" ELSE "ready",
     logs    |-> <<>>,    \* records this poller sent on log_tx, in order
     data    |-> <<>>,    \* records this poller sent on data_tx, in order
     frames  |-> <<>>]    \* history: frames the driver handed to this poller

\* variant: pollers are spawned by the session's first start_receiving only
RECURSIVE SpawnAll_Once(_, _, _, _)
SpawnAll_Once(chans, i, ths, handles) ==
    IF i > Len(chans) \/ Len(ths) > i - 1
    THEN [threads |-> ths, join_handles |-> handles]
    ELSE SpawnAll_Once(chans, i + 1,
                       Append(ths, NewThread(chans[i])),
                       Append(handles, Len(ths) + 1))

\* the `for &(channel, _) in &self.can_channels` loop of start_receiving
\* (one iteration for PcanApp): spawn a poller, push its JoinHandle
RECURSIVE SpawnAll(_, _, _, _)
SpawnAll(chans, i, ths, handles) ==
    IF i > Len(chans) THEN [threads |-> ths, join_handles |-> handles]
    ELSE SpawnAll(chans, i + 1,
                  Append(ths, NewThread(chans[i])),
                  Append(handles, Len(ths) + 1))

StartReceiving ==
    /\ pc = "idle"
    /\ Len(threads) + Len(can_channels) <= ThreadBudget
    /\ receiving' = TRUE
    /\ LET s == SpawnAll(can_channels, 1, threads, join_handles)
       IN  /\ threads' = s.threads
           /\ join_handles' = s.join_handles
    /\ returned' = Op("start_receiving", NoDrv, Ok, <<>>, <<>>)
    /\ last_method' = "start_receiving"
    /\ UNCHANGED <<gui, sinks, lookup, family, can_channels, bus, is_can_initialized,
                   pc, dev_open, opened_ok, touched>>

\* variant: stop_receiving flips the running flag
StopReceiving_Toggle ==
    /\ pc = "idle"
    /\ receiving' = ~receiving
    /\ pc' = "joining"
    /\ returned' = NoReturn
    /\ UNCHANGED <<gui, sinks, lookup, family, can_channels, bus, is_can_initialized,
                   join_handles, threads, dev_open, opened_ok, touched, last_method>>

\* stop_receiving, first statement: clear the flag, take the handles' lock
StopReceiving ==
    /\ pc = "idle"
    /\ receiving' = FALSE
    /\ pc' = "joining"
    /\ returned' = NoReturn
    /\ UNCHANGED <<gui, sinks, lookup, family, can_channels, bus, is_can_initialized,
                   join_handles, threads, dev_open, opened_ok, touched, last_method>>

\* one iteration of `while let Some(handle) = handles.pop()`: pop the handle
\* pushed last and block in join() until that thread has terminated
JoinOne(handles) == SubSeq(handles, 1, Len(handles) - 1)

\* variant: the handle is dropped without waiting for the thread
StopJoin_Detach ==
    /\ pc = "joining"
    /\ join_handles # <<>>
    /\ join_handles' = JoinOne(join_handles)
    /\ returned' = NoReturn
    /\ UNCHANGED <<gui, sinks, lookup, family, can_channels, bus, is_can_initialized,
                   receiving, threads, pc, dev_open, opened_ok, touched, last_method>>

StopJoin ==
    /\ pc = "joining"
    /\ join_handles # <<>>
    /\ Terminated(join_handles[Len(join_handles)])
    /\ join_handles' = JoinOne(join_handles)
    /\ returned' = NoReturn
    /\ UNCHANGED <<gui, sinks, lookup, family, can_channels, bus, is_can_initialized,
                   receiving, threads, pc, dev_open, opened_ok, touched, last_method>>

\* variant: stop_receiving also closes the device before it returns
StopReturn_Close ==
    /\ pc = "joining"
    /\ join_handles = <<>>
    /\ pc' = "idle"
    /\ is_can_initialized' = FALSE
    /\ dev_open' = FALSE
    /\ returned' = Op("stop_receiving", NoDrv, Ok,
                      <<IF family = "A" THEN Call("vci_close_device")
                        ELSE CallCh("can_uninitialize", can_channels[1])>>, <<>>)
    /\ last_method' = "stop_receiving"
    /\ UNCHANGED <<gui, sinks, lookup, family, can_channels, bus, receiving,
                   join_handles, threads, opened_ok, touched>>

\* handles.pop() returned None: stop_receiving returns
StopReturn ==
    /\ pc = "joining"
    /\ join_handles = <<>>
    /\ pc' = "idle"
    /\ returned' = Op("stop_receiving", NoDrv, Ok, <<>>, <<>>)
    /\ last_method' = "stop_receiving"
    /\ UNCHANGED <<gui, sinks, lookup, family, can_channels, bus, is_can_initialized,
                   receiving, join_handles, threads, dev_open, opened_ok, touched>>

\* ------------------------------------------------------------ poller steps
SetThread(t, r) == [threads EXCEPT ![t] = r]

\* what a poller step leaves alone: everything but its own thread record
PollerFrame ==
    UNCHANGED <<gui, sinks, lookup, family, can_channels, bus, is_can_initialized,
                receiving, join_handles, pc, dev_open, opened_ok, touched, last_method>>

PollerUnchanged ==
    /\ returned' = NoReturn
    /\ PollerFrame

\* the native poll call (vci_receive / CAN_Read) of poller t that has just
\* returned, with or without a frame
Polled(t, f) ==
    Op("poll", NoDrv, [ok |-> TRUE, thread |-> t, got |-> f.got],
       <<CallCh(IF family = "A" THEN "vci_receive" ELSE "can_read",
                threads[t].channel)>>,
       <<>>)

\* variant: a failed start-channel call also clears the shared running flag
PollerStart_AbortAll(t) ==
    /\ threads[t].pc = "start"
    /\ \E st \in Statuses :
          LET th == threads[t]
          IN  IF st # SUCCESS
              THEN /\ threads' = SetThread(t,
                        [th EXCEPT !.pc = "done",
                            !.logs = Append(@, LogChSt("CAN start failed on channel",
                                                       th.channel, st))])
                   /\ receiving' = FALSE
              ELSE /\ threads' = SetThread(t,
                        [th EXCEPT !.pc = "check",
                            !.logs = Append(@, LogCh("CAN Ch started", th.channel))])
                   /\ receiving' = receiving
    /\ returned' = NoReturn
    /\ UNCHANGED <<gui, sinks, lookup, family, can_channels, bus, is_can_initialized,
                   join_handles, pc, dev_open, opened_ok, touched, last_method>>

\* variant: a failed start-channel call is logged and the poller polls anyway
PollerStart_Proceed(t) ==
    /\ threads[t].pc = "start"
    /\ \E st \in Statuses :
          LET th == threads[t]
          IN  threads' = SetThread(t,
                IF st # SUCCESS
                THEN [th EXCEPT !.pc = "check",
                         !.logs = Append(@, LogChSt("CAN start failed on channel",
                                                    th.channel, st))]
                ELSE [th EXCEPT !.pc = "check",
                         !.logs = Append(@, LogCh("CAN Ch started", th.channel))])
    /\ PollerUnchanged

\* CanApp poller, first statement: vci_start_can; a failure is logged and
\* ends the thread
PollerStart(t) ==
    /\ threads[t].pc = "start"
    /\ \E st \in Statuses :
          LET th == threads[t]
          IN  threads' = SetThread(t,
                IF st # SUCCESS
                THEN [th EXCEPT !.pc = discard(send(sinks.log), "done"),
                         !.logs = Append(@, LogChSt("CAN start failed on channel",
                                                    th.channel, st))]
                ELSE [th EXCEPT !.pc = discard(send(sinks.log), "check"),
                         !.logs = Append(@, LogCh("CAN Ch started", th.channel))])
    /\ PollerUnchanged

\* PcanApp poller, first statement: the "ready for receiving" record
PollerReady(t) ==
    /\ threads[t].pc = "ready"
    /\ threads' = SetThread(t,
          [threads[t] EXCEPT !.pc = discard(send(sinks.log), "check"),
              !.logs = Append(@, LogCh("PCAN channel ready for receiving",
                                       threads[t].channel))])
    /\ PollerUnchanged

\* variant: the loop never looks at the running flag
PollerCheck_IgnoreFlag(t) ==
    /\ threads[t].pc = "check"
    /\ threads' = SetThread(t, [threads[t] EXCEPT !.pc = "recv"])
    /\ PollerUnchanged

\* the loop condition `while receiving_flag.load(SeqCst)`; on exit the
\* CanApp poller sends its "stopped receiving" record
PollerCheck(t) ==
    /\ threads[t].pc = "check"
    /\ threads' = SetThread(t,
          IF receiving
          THEN [threads[t] EXCEPT !.pc = "recv"]
          ELSE IF family = "A"
               THEN [threads[t] EXCEPT !.pc = discard(send(sinks.log), "done"),
                        !.logs = Append(@, LogCh("CAN Ch stopped receiving",
                                                 threads[t].channel))]
               ELSE [threads[t] EXCEPT !.pc = "done"])
    /\ PollerUnchanged

\* what the driver hands back to one poll: no frame, or a frame
NoFrame == [got |-> FALSE]

RECURSIVE Delivered(_)
Delivered(ths) ==
    IF ths = <<>> THEN 0
    ELSE Len(Head(ths).frames) + Delivered(Tail(ths))

\* frames the driver delivers in one behaviour on the session's bus
FrameBudget ==
    CASE bus = "silent"  -> 0
      [] bus = "traffic" -> MaxFrames
      [] bus = "burst"   -> MaxFrames + 1

Polls(th) ==
    {NoFrame} \cup
    (IF Delivered(threads) < FrameBudget
     THEN {[got |-> TRUE, id |-> i, len |-> n] : i \in FrameIds, n \in DataLens}
     ELSE {})

\* variant: the new record overtakes the records already on data_tx
PollerRecv_Prepend(t) ==
    /\ threads[t].pc = "recv"
    /\ \E f \in Polls(threads[t]) :
          LET th == threads[t]
          IN  /\ threads' = SetThread(t,
                IF ~f.got THEN [th EXCEPT !.pc = "check"]
                ELSE IF f.len > DATA_CAPACITY
                THEN [th EXCEPT !.pc = "panicked", !.frames = Append(@, f)]
                ELSE [th EXCEPT !.pc = "check", !.frames = Append(@, f),
                         !.data = <<[channel |-> th.channel, id |-> f.id,
                                     len |-> f.len]>> \o @])
              /\ returned' = Polled(t, f)
    /\ PollerFrame

\* variant: a poll that returned no frame is reported on log_tx
PollerRecv_LogEmpty(t) ==
    /\ threads[t].pc = "recv"
    /\ \E f \in Polls(threads[t]) :
          LET th == threads[t]
          IN  /\ threads' = SetThread(t,
                IF ~f.got
                THEN [th EXCEPT !.pc = "check",
                         !.logs = Append(@, LogCh("No frame received", th.channel))]
                ELSE IF f.len > DATA_CAPACITY
                THEN [th EXCEPT !.pc = "panicked", !.frames = Append(@, f)]
                ELSE [th EXCEPT !.pc = "check", !.frames = Append(@, f),
                         !.data = Append(@, [channel |-> th.channel, id |-> f.id,
                                             len |-> f.len])])
              /\ returned' = Polled(t, f)
    /\ PollerFrame

\* variant: a poll that returned no frame is repeated at once, without a look
\* at the running flag
PollerRecv_Repoll(t) ==
    /\ threads[t].pc = "recv"
    /\ \E f \in Polls(threads[t]) :
          LET th == threads[t]
          IN  /\ threads' = SetThread(t,
                IF ~f.got THEN th
                ELSE IF f.len > DATA_CAPACITY
                THEN [th EXCEPT !.pc = "panicked", !.frames = Append(@, f)]
                ELSE [th EXCEPT !.pc = "check", !.frames = Append(@, f),
                         !.data = Append(@, [channel |-> th.channel, id |-> f.id,
                                             len |-> f.len])])
              /\ returned' = Polled(t, f)
    /\ PollerFrame

\* the loop body: one vci_receive / CAN_Read; a frame is formatted and sent
\* on data_tx; slicing data[..len] with len > 8 panics the thread
PollerRecv(t) ==
    /\ threads[t].pc = "recv"
    /\ \E f \in Polls(threads[t]) :
          LET th == threads[t]
          IN  /\ threads' = SetThread(t,
                IF ~f.got THEN [th EXCEPT !.pc = "check"]
                ELSE IF f.len > DATA_CAPACITY
                THEN [th EXCEPT !.pc = "panicked", !.frames = Append(@, f)]
                ELSE [th EXCEPT !.pc = discard(send(sinks.data), "check"),
                         !.frames = Append(@, f),
                         !.data = Append(@, [channel |-> th.channel, id |-> f.id,
                                             len |-> f.len])])
              /\ returned' = Polled(t, f)
    /\ PollerFrame

Poller(t) == PollerStart(t) \/ PollerReady(t) \/ PollerCheck(t) \/ PollerRecv(t)

Next ==
    \/ OpenDevice
    \/ CloseDevice
    \/ ReadBoardInfo
    \/ StartReceiving
    \/ StopReceiving
    \/ StopJoin
    \/ StopReturn
    \/ \E t \in DOMAIN threads : PollerStart(t)
    \/ \E t \in DOMAIN threads : PollerReady(t)
    \/ \E t \in DOMAIN threads : PollerCheck(t)
    \/ \E t \in DOMAIN threads : PollerRecv(t)

Spec == Init /\ [][Next]_vars

SpecTraffic == InitTraffic /\ [][Next]_vars

SpecBurst == InitBurst /\ [][Next]_vars

\* Scheduling: the operating system runs every thread that can take a step,
\* so each poller keeps stepping until it has terminated, and the caller
\* blocked in join() goes on once the joined thread has terminated.
Fairness ==
    /\ \A t \in 1..MaxThreads : WF_vars(t \in DOMAIN threads /\ Poller(t))
    /\ WF_vars(StopJoin)
    /\ WF_vars(StopReturn)

\* a session with distinct channels on a silent bus, fairly scheduled
InitFair == Init /\ DistinctChannels

SpecFair == InitFair /\ [][Next]_vars /\ Fairness

\* the consumer drops the receiver of log_tx or of data_tx
DropReceiver ==
    /\ \E k \in DOMAIN sinks :
          /\ sinks[k]
          /\ sinks' = [sinks EXCEPT ![k] = FALSE]
    /\ returned' = NoReturn
    /\ UNCHANGED <<gui, lookup, family, can_channels, bus, is_can_initialized,
                   receiving, join_handles, threads, pc, dev_open, opened_ok,
                   touched, last_method>>

NextSinks ==
    \/ OpenDevice
    \/ CloseDevice
    \/ ReadBoardInfo
    \/ StartReceiving
    \/ StopReceiving
    \/ StopJoin
    \/ StopReturn
    \/ \E t \in DOMAIN threads : PollerStart(t)
    \/ \E t \in DOMAIN threads : PollerReady(t)
    \/ \E t \in DOMAIN threads : PollerCheck(t)
    \/ \E t \in DOMAIN threads : PollerRecv(t)
    \/ DropReceiver

\* a one-channel session on a bus with back-to-back frames whose consumer may
\* drop either receiver at any moment
InitSinks == InitBurst

SpecSinks == InitSinks /\ [][NextSinks]_vars

\* ------------------------------------------------------------------ CanGui
\* The session variables describe the session start_can constructed last.
Apis == {"ControlCan", "Pcan"}

\* CanApp::new(4, 0, [(controlcan_ch1, ..), (controlcan_ch2, ..)]) with the
\* default channel fields 0 and 1, or PcanApp::new(0x51, ..)
GuiFamily   == IF gui.api = "ControlCan" THEN "A" ELSE "B"
GuiChannels == IF gui.api = "ControlCan" THEN <<0, 1>> ELSE <<PCAN_USBBUS1>>

\* poller threads spawned in one behaviour of the GUI: two sessions' worth
GuiThreadBudget == 2 * MaxThreads

GuiReturn(accepted, ok) == [ok |-> ok, accepted |-> accepted]

\* the radio buttons of the config panel
SelectApi ==
    /\ pc = "idle"
    /\ \E a \in Apis \ {gui.api} : gui' = [gui EXCEPT !.api = a]
    /\ returned' = NoReturn
    /\ UNCHANGED <<sinks, lookup, family, can_channels, bus, is_can_initialized,
                   receiving, join_handles, threads, pc, dev_open, opened_ok,
                   touched, last_method>>

\* start_can up to the construction of the session: the is_receiving guard,
\* `*rec = true`, then CanApp::new / PcanApp::new for the selected API
StartCan ==
    /\ pc = "idle"
    /\ IF gui.is_receiving
       THEN /\ returned' = Op("start_can", NoDrv, GuiReturn(FALSE, TRUE), <<>>, <<>>)
            /\ last_method' = "start_can"
            /\ UNCHANGED <<gui, family, can_channels, is_can_initialized, receiving,
                           join_handles, pc>>
       ELSE /\ Len(threads) + Len(GuiChannels) <= GuiThreadBudget
            /\ gui' = [gui EXCEPT !.is_receiving = TRUE]
            /\ family' = GuiFamily
            /\ can_channels' = GuiChannels
            /\ is_can_initialized' = FALSE
            /\ receiving' = FALSE
            /\ join_handles' = <<>>
            /\ pc' = "opening"
            /\ returned' = NoReturn
            /\ UNCHANGED last_method
    /\ UNCHANGED <<sinks, lookup, bus, threads, dev_open, opened_ok, touched>>

\* variant: a failed open_device leaves is_receiving set
StartCanOpen_KeepFlag ==
    /\ pc = "opening"
    /\ \E drv \in OpenPlans :
          LET e == IF family = "A" THEN CanApp_open_device(can_channels, drv)
                                   ELSE PcanApp_open_device(can_channels, drv)
              s == SpawnAll(can_channels, 1, threads, join_handles)
          IN  /\ is_can_initialized' = StoreInit(e)
              /\ dev_open' = DeviceAfter(dev_open, e.calls, drv.open = Success)
              /\ opened_ok' = (drv.open = Success /\ AllInitOk(drv))
              /\ IF e.result.ok
                 THEN /\ receiving' = TRUE
                      /\ threads' = s.threads
                      /\ join_handles' = s.join_handles
                      /\ gui' = [gui EXCEPT !.can_app = "some"]
                 ELSE /\ UNCHANGED <<receiving, threads, join_handles, gui>>
              /\ returned' = Op("start_can", drv, GuiReturn(TRUE, e.result.ok),
                                e.calls, e.logs)
    /\ pc' = "idle"
    /\ last_method' = "start_can"
    /\ touched' = Len(threads)
    /\ UNCHANGED <<sinks, lookup, family, can_channels, bus>>

\* the rest of start_can: open_device; on Err is_receiving is reset and the
\* session dropped; on Ok start_receiving runs and the session is stored
StartCanOpen ==
    /\ pc = "opening"
    /\ \E drv \in OpenPlans :
          LET e == IF family = "A" THEN CanApp_open_device(can_channels, drv)
                                   ELSE PcanApp_open_device(can_channels, drv)
              s == SpawnAll(can_channels, 1, threads, join_handles)
          IN  /\ is_can_initialized' = StoreInit(e)
              /\ dev_open' = DeviceAfter(dev_open, e.calls, drv.open = Success)
              /\ opened_ok' = (drv.open = Success /\ AllInitOk(drv))
              /\ IF e.result.ok
                 THEN /\ receiving' = TRUE
                      /\ threads' = s.threads
                      /\ join_handles' = s.join_handles
                      /\ gui' = [gui EXCEPT !.can_app = "some"]
                 ELSE /\ gui' = [gui EXCEPT !.is_receiving = FALSE]
                      /\ UNCHANGED <<receiving, threads, join_handles>>
              /\ returned' = Op("start_can", drv, GuiReturn(TRUE, e.result.ok),
                                e.calls, e.logs)
    /\ pc' = "idle"
    /\ last_method' = "start_can"
    /\ touched' = Len(threads)
    /\ UNCHANGED <<sinks, lookup, family, can_channels, bus>>

\* variant: stop_can closes the device first and stops the pollers after
StopCan_CloseFirst ==
    /\ pc = "idle"
    /\ IF ~gui.is_receiving
       THEN /\ returned' = Op("stop_can", NoDrv, GuiReturn(FALSE, TRUE), <<>>, <<>>)
            /\ last_method' = "stop_can"
            /\ UNCHANGED <<gui, receiving, pc, is_can_initialized, dev_open>>
       ELSE /\ gui' = [gui EXCEPT !.is_receiving = FALSE]
            /\ receiving' = FALSE
            /\ pc' = "joining"
            /\ is_can_initialized' = FALSE
            /\ dev_open' = FALSE
            /\ returned' = Op("close_device", NoDrv, Ok,
                              <<IF family = "A" THEN Call("vci_close_device")
                                ELSE CallCh("can_uninitialize", can_channels[1])>>,
                              <<>>)
            /\ UNCHANGED last_method
    /\ UNCHANGED <<sinks, lookup, family, can_channels, bus, join_handles, threads,
                   opened_ok, touched>>

\* stop_can up to the first statement of stop_receiving: the is_receiving
\* guard, `*rec = false`, then the session's running flag is cleared
StopCan ==
    /\ pc = "idle"
    /\ IF ~gui.is_receiving
       THEN /\ returned' = Op("stop_can", NoDrv, GuiReturn(FALSE, TRUE), <<>>, <<>>)
            /\ last_method' = "stop_can"
            /\ UNCHANGED <<gui, receiving, pc>>
       ELSE /\ gui' = [gui EXCEPT !.is_receiving = FALSE]
            /\ IF gui.can_app = "none"
               THEN /\ returned' = Op("stop_can", NoDrv, GuiReturn(TRUE, TRUE),
                                      <<>>, <<>>)
                    /\ last_method' = "stop_can"
                    /\ UNCHANGED <<receiving, pc>>
               ELSE /\ receiving' = FALSE
                    /\ pc' = "joining"
                    /\ returned' = NoReturn
                    /\ UNCHANGED last_method
    /\ UNCHANGED <<sinks, lookup, family, can_channels, bus, is_can_initialized,
                   join_handles, threads, dev_open, opened_ok, touched>>

\* the rest of stop_can: stop_receiving has joined every poller and returns,
\* then close_device
StopCanClose ==
    /\ pc = "joining"
    /\ join_handles = <<>>
    /\ \E c \in Statuses :
          LET drv == Drv(Success, <<>>, Success, <<>>, c)
              e == IF family = "A" THEN CanApp_close_device(drv)
                                   ELSE PcanApp_close_device(can_channels, drv)
          IN  /\ is_can_initialized' = StoreInit(e)
              /\ dev_open' = DeviceAfter(dev_open, e.calls, FALSE)
              /\ returned' = Op("stop_can", drv, GuiReturn(TRUE, TRUE), e.calls, e.logs)
    /\ pc' = "idle"
    /\ last_method' = "stop_can"
    /\ opened_ok' = FALSE
    /\ touched' = Len(threads)
    /\ UNCHANGED <<gui, sinks, lookup, family, can_channels, bus, receiving,
                   join_handles, threads>>

NextGui ==
    \/ SelectApi
    \/ StartCan
    \/ StartCanOpen
    \/ StopCan
    \/ StopJoin
    \/ StopCanClose
    \/ \E t \in DOMAIN threads : PollerStart(t)
    \/ \E t \in DOMAIN threads : PollerReady(t)
    \/ \E t \in DOMAIN threads : PollerCheck(t)
    \/ \E t \in DOMAIN threads : PollerRecv(t)

\* a CanGui as CanGui::default builds it, on a silent bus
DefaultGui == [NoGui EXCEPT !.api = "ControlCan"]

InitGui ==
    /\ gui = DefaultGui
    /\ family = GuiFamily
    /\ can_channels = GuiChannels
    /\ is_can_initialized = FALSE
    /\ receiving = FALSE
    /\ join_handles = <<>>
    /\ threads = <<>>
    /\ pc = "idle"
    /\ dev_open = FALSE
    /\ opened_ok = FALSE
    /\ touched = 0
    /\ bus = "silent"
    /\ last_method = "new"
    /\ returned = NoReturn
    /\ lookup = NoLookup
    /\ sinks = Attached

SpecGui == InitGui /\ [][NextGui]_vars

\* --------------------------------------------------------- CanGui buffers
\* what a consumer thread does with a record it received: pop_front when the
\* buffer holds `capacity` entries or more, then push_back
Buffered(len, capacity) == (IF len >= capacity THEN len - 1 ELSE len) + 1

BuffersFrame ==
    /\ returned' = NoReturn
    /\ UNCHANGED <<sinks, lookup, family, can_channels, bus, is_can_initialized,
                   receiving, join_handles, threads, pc, dev_open, opened_ok,
                   touched, last_method>>

\* the log consumer thread: one record received from log_rx
ConsumeLog ==
    /\ gui.is_receiving
    /\ gui' = [gui EXCEPT !.logs = Buffered(@, LOG_BUFFER_CAPACITY)]
    /\ BuffersFrame

\* the data consumer thread: one record received from data_rx
ConsumeData ==
    /\ gui.is_receiving
    /\ gui' = [gui EXCEPT !.data = Buffered(@, DATA_BUFFER_CAPACITY)]
    /\ BuffersFrame

\* the Load YAML Config button with a file picked: one "[CONFIG] .." entry
\* is pushed on the log buffer, whether the file loaded or not
LoadYamlConfig ==
    /\ gui.logs < LOG_BUFFER_CAPACITY + MaxLoads
    /\ gui' = [gui EXCEPT !.logs = @ + 1]
    /\ BuffersFrame

NextBuffers ==
    \/ ConsumeLog
    \/ ConsumeData
    \/ LoadYamlConfig

\* a CanGui whose Start was accepted: a two-channel CanApp session is open
\* and its pollers run; both buffers are empty
InitBuffers ==
    /\ gui = [DefaultGui EXCEPT !.is_receiving = TRUE, !.can_app = "some"]
    /\ family = GuiFamily
    /\ can_channels = GuiChannels
    /\ is_can_initialized = TRUE
    /\ receiving = TRUE
    /\ join_handles = <<1, 2>>
    /\ threads = [t \in 1..2 |->
                    [NewThread(can_channels[t]) EXCEPT
                        !.pc = "check",
                        !.logs = <<LogCh("CAN Ch started", can_channels[t])>>]]
    /\ pc = "idle"
    /\ dev_open = TRUE
    /\ opened_ok = TRUE
    /\ touched = 0
    /\ bus = "silent"
    /\ last_method = "start_can"
    /\ returned = NoReturn
    /\ lookup = NoLookup
    /\ sinks = Attached

SpecBuffers == InitBuffers /\ [][NextBuffers]_vars

TypeOK ==
    /\ family \in Families
    /\ bus \in {"silent", "traffic", "burst"}
    /\ sinks \in [{"log", "data"} -> BOOLEAN]
    /\ is_can_initialized \in BOOLEAN
    /\ receiving \in BOOLEAN
    /\ pc \in {"idle", "joining", "opening"}
    /\ Len(threads) <= GuiThreadBudget
    /\ gui.is_receiving \in BOOLEAN

\* ------------------------------------------------------ baud-rate tables
\* Option<T>: None is the empty sequence, Some(x) the one-element sequence
None == <<>>
Some(x) == <<x>>
unwrap_or(opt, default) == IF opt = None THEN default ELSE opt[1]

\* the rates the GUI offers for each API, in kbit/s
CONTROL_CAN_BAUD_RATES ==
    {10, 20, 33, 40, 50, 66, 80, 83, 100, 125, 200, 250, 400, 500, 666, 800, 1000}
PCAN_BAUD_RATES == {5, 10, 20, 33, 47, 50, 83, 95, 100, 125, 250, 500, 800, 1000}

\* variant: a value without a table entry is mapped to a default rate
VciCanBaudRate_from_u32_Defaulting(value) ==
    CASE value = 10 -> Some("Baud10K")
      [] value = 20 -> Some("Baud20K")
      [] value = 33 -> Some("Baud33_33K")
      [] value = 40 -> Some("Baud40K")
      [] value = 50 -> Some("Baud50K")
      [] value = 66 -> Some("Baud66_66K")
      [] value = 80 -> Some("Baud80K")
      [] value = 83 -> Some("Baud83_33K")
      [] value = 100 -> Some("Baud100K")
      [] value = 125 -> Some("Baud125K")
      [] value = 200 -> Some("Baud200K")
      [] value = 250 -> Some("Baud250K")
      [] value = 400 -> Some("Baud400K")
      [] value = 500 -> Some("Baud500K")
      [] value = 666 -> Some("Baud666K")
      [] value = 800 -> Some("Baud800K")
      [] value = 1000 -> Some("Baud1M")
      [] OTHER -> Some("Baud250K")

VciCanBaudRate_from_u32(value) ==
    CASE value = 10 -> Some("Baud10K")
      [] value = 20 -> Some("Baud20K")
      [] value = 33 -> Some("Baud33_33K")
      [] value = 40 -> Some("Baud40K")
      [] value = 50 -> Some("Baud50K")
      [] value = 66 -> Some("Baud66_66K")
      [] value = 80 -> Some("Baud80K")
      [] value = 83 -> Some("Baud83_33K")
      [] value = 100 -> Some("Baud100K")
      [] value = 125 -> Some("Baud125K")
      [] value = 200 -> Some("Baud200K")
      [] value = 250 -> Some("Baud250K")
      [] value = 400 -> Some("Baud400K")
      [] value = 500 -> Some("Baud500K")
      [] value = 666 -> Some("Baud666K")
      [] value = 800 -> Some("Baud800K")
      [] value = 1000 -> Some("Baud1M")
      [] OTHER -> None

\* (timing0, timing1) of the ControlCAN init config
VciCanBaudRate_to_timing_values(rate) ==
    CASE rate = "Baud10K" -> <<49, 28>>
      [] rate = "Baud20K" -> <<24, 28>>
      [] rate = "Baud33_33K" -> <<9, 111>>
      [] rate = "Baud40K" -> <<135, 255>>
      [] rate = "Baud50K" -> <<9, 28>>
      [] rate = "Baud66_66K" -> <<4, 111>>
      [] rate = "Baud80K" -> <<131, 255>>
      [] rate = "Baud83_33K" -> <<3, 111>>
      [] rate = "Baud100K" -> <<4, 28>>
      [] rate = "Baud125K" -> <<3, 28>>
      [] rate = "Baud200K" -> <<129, 250>>
      [] rate = "Baud250K" -> <<1, 28>>
      [] rate = "Baud400K" -> <<128, 250>>
      [] rate = "Baud500K" -> <<0, 28>>
      [] rate = "Baud666K" -> <<128, 182>>
      [] rate = "Baud800K" -> <<0, 22>>
      [] rate = "Baud1M" -> <<0, 20>>

\* variant: only the round rates have an entry
PcanBaudRate_from_u32_Round(value) ==
    CASE value = 1000 -> Some("Baud1M")
      [] value = 800 -> Some("Baud800K")
      [] value = 500 -> Some("Baud500K")
      [] value = 250 -> Some("Baud250K")
      [] value = 125 -> Some("Baud125K")
      [] value = 100 -> Some("Baud100K")
      [] value = 83 -> Some("Baud83K")
      [] value = 50 -> Some("Baud50K")
      [] value = 33 -> Some("Baud33K")
      [] value = 20 -> Some("Baud20K")
      [] value = 10 -> Some("Baud10K")
      [] OTHER -> None

PcanBaudRate_from_u32(value) ==
    CASE value = 1000 -> Some("Baud1M")
      [] value = 800 -> Some("Baud800K")
      [] value = 500 -> Some("Baud500K")
      [] value = 250 -> Some("Baud250K")
      [] value = 125 -> Some("Baud125K")
      [] value = 100 -> Some("Baud100K")
      [] value = 95 -> Some("Baud95K")
      [] value = 83 -> Some("Baud83K")
      [] value = 50 -> Some("Baud50K")
      [] value = 47 -> Some("Baud47K")
      [] value = 33 -> Some("Baud33K")
      [] value = 20 -> Some("Baud20K")
      [] value = 10 -> Some("Baud10K")
      [] value = 5 -> Some("Baud5K")
      [] OTHER -> None

\* the enum discriminant, the BTR0BTR1 code handed to CAN_Initialize
PcanBaudRate_to_u16(rate) ==
    CASE rate = "Baud1M" -> 20
      [] rate = "Baud800K" -> 22
      [] rate = "Baud500K" -> 28
      [] rate = "Baud250K" -> 284
      [] rate = "Baud125K" -> 796
      [] rate = "Baud100K" -> 17199
      [] rate = "Baud95K" -> 49998
      [] rate = "Baud83K" -> 34091
      [] rate = "Baud50K" -> 18223
      [] rate = "Baud47K" -> 5140
      [] rate = "Baud33K" -> 35631
      [] rate = "Baud20K" -> 21295
      [] rate = "Baud10K" -> 26415
      [] rate = "Baud5K" -> 32639

\* the baud fields of CanGui
BaudFields == {"controlcan_baud1", "controlcan_baud2", "pcan_baud"}

from_u32(field, value) ==
    IF field = "pcan_baud" THEN PcanBaudRate_from_u32(value)
                           ELSE VciCanBaudRate_from_u32(value)

\* from_u32 followed by the encoding function of the family
BaudLookup(field, value) ==
    LET rate == from_u32(field, value)
    IN  [rate    |-> rate,
         encoded |-> IF rate = None THEN None
                     ELSE IF field = "pcan_baud"
                          THEN Some(PcanBaudRate_to_u16(rate[1]))
                          ELSE Some(VciCanBaudRate_to_timing_values(rate[1]))]

\* the argument of unwrap_or in start_can, per field
FallbackRate(field) ==
    CASE field = "controlcan_baud1" -> "Baud250K"
      [] field = "controlcan_baud2" -> "Baud1M"
      [] field = "pcan_baud"        -> "Baud250K"

\* a CanGui whose baud field holds any u32 up to MaxBaud, about to build the
\* session of the selected API in start_can
InitBaud ==
    /\ lookup \in {[field |-> f, baud |-> n, calls |-> <<>>, resolved |-> None,
                    logs |-> <<>>] : f \in BaudFields, n \in 0..MaxBaud}
    /\ family = IF lookup.field = "pcan_baud" THEN "B" ELSE "A"
    /\ can_channels = IF family = "A" THEN <<0, 1>> ELSE <<PCAN_USBBUS1>>
    /\ is_can_initialized = FALSE
    /\ receiving = FALSE
    /\ join_handles = <<>>
    /\ threads = <<>>
    /\ pc = "idle"
    /\ dev_open = FALSE
    /\ opened_ok = FALSE
    /\ touched = 0
    /\ bus = "silent"
    /\ last_method = "new"
    /\ returned = NoReturn
    /\ sinks = Attached
    /\ gui = NoGui

SessionUnchanged ==
    UNCHANGED <<gui, sinks, family, can_channels, is_can_initialized, receiving, join_handles,
                threads, pc, dev_open, opened_ok, touched, bus, last_method,
                returned>>

\* one call of the table lookup on the field's value
LookupBaud ==
    /\ lookup.field \in BaudFields
    /\ Len(lookup.calls) < MaxCalls
    /\ lookup' = [lookup EXCEPT
                     !.calls = Append(@, BaudLookup(lookup.field, lookup.baud))]
    /\ SessionUnchanged

\* start_can: from_u32(field).unwrap_or(default); nothing is sent on log_tx
StartCanResolve ==
    /\ lookup.field \in BaudFields
    /\ lookup.resolved = None
    /\ lookup' = [lookup EXCEPT
                     !.resolved = Some(unwrap_or(from_u32(lookup.field, lookup.baud),
                                                 FallbackRate(lookup.field)))]
    /\ SessionUnchanged

NextBaud ==
    \/ LookupBaud
    \/ StartCanResolve

SpecBaud == InitBaud /\ [][NextBaud]_vars

\* ================================================================ claims
LastOpen     == returned.name = "open_device"
DeviceOpenOk == returned.drv.open = Success
InitsOk      == AllInitOk(returned.drv)
BoardOk      == returned.drv.board = Success
FailedInit   == FirstFailure(returned.drv.init)

BoardInfoRecords == {"Board info", "PCAN API Version"}
HasBoardInfoRecord ==
    \E i \in DOMAIN returned.logs : returned.logs[i].msg \in BoardInfoRecords
CloseCalls == {i \in DOMAIN returned.calls : IsCloseCall(returned.calls[i])}
BoardCalls ==
    {i \in DOMAIN returned.calls :
        returned.calls[i].fn \in {"vci_read_board_info", "can_get_value"}}

C2_InitFailureRollsBack ==
    (LastOpen /\ DeviceOpenOk /\ FailedInit # 0)
        => /\ returned.result = [ok |-> FALSE,
                               err |-> "CAN Ch initialization failed",
                               channel |-> can_channels[FailedInit]]
           /\ Cardinality(CloseCalls) = 1
           /\ ~is_can_initialized

\* the second channel fails on a session an earlier open had initialized
C2_Witness ==
    /\ LastOpen /\ returned.again /\ DeviceOpenOk /\ FailedInit = 2
    /\ ~returned.result.ok /\ ~is_can_initialized

\* C3: is_initialized is true exactly when the most recent open_device had its
\* device-open and every channel-init succeed and no close_device ran since.
C3_Original == is_can_initialized <=> opened_ok

\* C4: whenever open_device returned an error the session is Closed:
\* is_initialized is false and the driver device is not open.
C4_Original ==
    (LastOpen /\ ~returned.result.ok) => (~is_can_initialized /\ ~dev_open)

C6_CloseIdempotent ==
    returned.name = "close_device"
        => /\ Len(returned.calls) = 1 /\ Cardinality(CloseCalls) = 1
           /\ Len(returned.logs) = 1
           /\ returned.logs[1].msg \in {"Device closed, Status",
                                       "PCAN device closed, status"}
           /\ returned.logs[1].status = returned.drv.close
           /\ ~is_can_initialized
           /\ returned.result.ok

\* close_device has just returned for the second time in a row
C6_Witness ==
    /\ returned.name = "close_device" /\ returned.again
    /\ Len(returned.logs) = 1 /\ ~is_can_initialized

\* C7: after close_device returned, is_initialized is false and no poller of
\* the session is running.
C7_Original ==
    last_method = "close_device" => (~is_can_initialized /\ Live = {})

\* C8: no poller issues a native call (start-channel, poll-frame) once the
\* caller has closed or reopened the device under it.
C8_Original ==
    [][\A t \in DOMAIN threads :
          (PollerStart(t) \/ PollerRecv(t)) => ~Stale(t)]_vars

\* C9: when stop_receiving has returned, every poller spawned so far has
\* terminated and no join handle is left.
C9_StopJoinsAll ==
    last_method = "stop_receiving" => (Live = {} /\ join_handles = <<>>)

\* stop_receiving returned after a poller that had received a frame
C9_Witness ==
    /\ returned.name = "stop_receiving" /\ pc = "idle"
    /\ \E t \in DOMAIN threads : threads[t].data # <<>> /\ Terminated(t)

\* C10: at most one live poller per configured channel (list entry).
ChannelIds == ChanIds \cup {PCAN_USBBUS1}
C10_Original ==
    \A c \in ChannelIds :
        Cardinality({t \in Live : threads[t].channel = c})
            <= Cardinality({i \in DOMAIN can_channels : can_channels[i] = c})

HasRecord(t, msgs) ==
    \E i \in DOMAIN threads[t].logs : threads[t].logs[i].msg \in msgs
StartedOk(t)   == HasRecord(t, {"CAN Ch started"})
StartFailed(t) == HasRecord(t, {"CAN start failed on channel"})
\* the poller has reported that it runs: CanApp after vci_start_can succeeded,
\* PcanApp on entry (the channel was started by CAN_Initialize)
Began(t) == HasRecord(t, {"CAN Ch started", "PCAN channel ready for receiving"})
HasStopped(t) == HasRecord(t, {"CAN Ch stopped receiving"})
\* the pollers spawned by the most recent start_receiving call
LastBatch == {t \in DOMAIN threads : t > Len(threads) - Len(can_channels)}

\* C11: a start_receiving call made while is_initialized is false spawns no
\* poller.
C11_Original ==
    [][(StartReceiving /\ ~is_can_initialized) => threads' = threads]_vars

\* C12: a poller whose start-channel call failed has sent exactly one record,
\* the failure with its channel and the status, and has ended; once
\* start_receiving has returned, every poller of that call whose
\* start-channel call succeeded is running, whatever its siblings did.
C12_StartFailureIsolated ==
    family = "A" =>
        /\ \A t \in DOMAIN threads :
              StartFailed(t) =>
                  /\ Len(threads[t].logs) = 1
                  /\ threads[t].logs[1].channel = threads[t].channel
                  /\ threads[t].logs[1].status # SUCCESS
                  /\ threads[t].pc = "done"
        /\ (last_method = "start_receiving" /\ pc = "idle") =>
              \A t \in LastBatch :
                  StartedOk(t) => threads[t].pc \in {"check", "recv"}

\* the first channel failed to start, the second one polls
C12_Witness ==
    /\ family = "A" /\ Len(can_channels) = 2 /\ Len(threads) = 2
    /\ last_method = "start_receiving" /\ pc = "idle"
    /\ StartFailed(1) /\ threads[1].pc = "done"
    /\ StartedOk(2) /\ threads[2].pc = "recv"

\* C13: when a stop_receiving call that directly followed start_receiving
\* returns, no poller is running and every poller that had started has sent
\* a "stopped receiving" record, in both families.
C13_Original ==
    [][(StopReturn /\ last_method = "start_receiving") =>
          \A t \in DOMAIN threads :
              Terminated(t) /\ (Began(t) => HasStopped(t))]_vars

NotInitializedRecords ==
    {"Error: CAN not initialized; cannot read board info",
     "Error: PCAN device not initialized; cannot read board info"}
BoardFailureRecords == {"Read board failed", "Failed to read PCAN board info"}
BoardReadCalls == {"vci_read_board_info", "can_get_value"}

\* C14: a read_board_info call changes no session state; made while
\* is_initialized is false it issues no native call and sends exactly one
\* error record; made while is_initialized is true it issues exactly one
\* native board-info read and sends one record, the board info when the read
\* succeeded and the failure otherwise.
C14_ReadBoardInfo ==
    [][returned'.name = "read_board_info" =>
          /\ UNCHANGED <<is_can_initialized, receiving, join_handles, threads,
                         can_channels, dev_open, pc>>
          /\ Len(returned'.logs) = 1
          /\ IF ~is_can_initialized
             THEN /\ returned'.calls = <<>>
                  /\ returned'.logs[1].msg \in NotInitializedRecords
             ELSE /\ Len(returned'.calls) = 1
                  /\ returned'.calls[1].fn \in BoardReadCalls
                  /\ returned'.logs[1].msg \in
                        IF returned'.drv.board = Success
                        THEN BoardInfoRecords ELSE BoardFailureRecords]_vars

\* read_board_info refused on a session that was never opened while its
\* pollers run
C14_Witness ==
    /\ returned.name = "read_board_info" /\ ~is_can_initialized
    /\ returned.calls = <<>> /\ Len(returned.logs) = 1
    /\ returned.logs[1].msg \in NotInitializedRecords
    /\ Live # {}

SupportedBauds(field) ==
    IF field = "pcan_baud" THEN PCAN_BAUD_RATES ELSE CONTROL_CAN_BAUD_RATES

\* C15: every call of the baud lookup on one value returns what the first
\* call returned; a value of the family's supported set yields a rate and its
\* encoding, every other value yields None and no encoding.
C15_BaudLookup ==
    \A i \in DOMAIN lookup.calls :
        LET c == lookup.calls[i]
        IN  /\ c = lookup.calls[1]
            /\ IF lookup.baud \in SupportedBauds(lookup.field)
               THEN c.rate # None /\ c.encoded # None
               ELSE c.rate = None /\ c.encoded = None

\* 95 kbit/s looked up twice in the PCAN table
C15_Witness ==
    /\ lookup.field = "pcan_baud" /\ lookup.baud = 95
    /\ Len(lookup.calls) = 2
    /\ lookup.calls[2] = [rate |-> Some("Baud95K"), encoded |-> Some(49998)]

\* C16: a baud value without a table entry is resolved to one default rate,
\* the same for every baud field, and a record on the log sink says so.
C16_Original ==
    (lookup.resolved # None /\ lookup.baud \notin SupportedBauds(lookup.field))
        => /\ \A f \in BaudFields : lookup.resolved[1] = FallbackRate(f)
           /\ lookup.logs # <<>>

\* the records that report the failure of a native call
FailureRecords ==
    {"Device open failed, Error Code", "PCAN initialization failed, error code",
     "CAN Ch initialization failed", "Read board failed",
     "Failed to read PCAN board info", "Failed to enable message filter.",
     "Failed to disable listen-only mode.", "Failed to enable Bus-Off auto-reset.",
     "CAN start failed on channel"}
CloseRecords == {"Device closed, Status", "PCAN device closed, status"}

\* a record of `logs` with a text of `msgs` carries the status code st
Reported(logs, msgs, st) ==
    \E i \in DOMAIN logs :
        /\ logs[i].msg \in msgs
        /\ "status" \in DOMAIN logs[i]
        /\ logs[i].status = st

\* C17: every native call that answered with a non-success status (device
\* open, channel init, board-info read, channel configuration, close,
\* channel start) has a record on the log sink that carries that status.
C17_Original ==
    /\ LastOpen =>
          /\ ~DeviceOpenOk =>
                Reported(returned.logs, FailureRecords, returned.drv.open)
          /\ (DeviceOpenOk /\ FailedInit # 0) =>
                Reported(returned.logs, FailureRecords,
                         returned.drv.init[FailedInit])
          /\ (family = "A" /\ DeviceOpenOk /\ InitsOk /\ ~BoardOk) =>
                Reported(returned.logs, FailureRecords, returned.drv.board)
          /\ (family = "B" /\ DeviceOpenOk) =>
                \A j \in DOMAIN returned.drv.cfg :
                    returned.drv.cfg[j] # Success =>
                        Reported(returned.logs, FailureRecords, returned.drv.cfg[j])
    /\ (returned.name = "read_board_info" /\ is_can_initialized /\ ~BoardOk) =>
          Reported(returned.logs, FailureRecords, returned.drv.board)
    /\ (returned.name = "close_device" /\ returned.drv.close # Success) =>
          Reported(returned.logs, CloseRecords, returned.drv.close)
    /\ \A t \in DOMAIN threads :
          StartFailed(t) =>
              \E st \in Statuses \ {SUCCESS} :
                  Reported(threads[t].logs, FailureRecords, st)

\* C18: the error open_device returns for a failed channel init names the
\* failing channel and carries the status the driver answered with.
C18_Original ==
    (LastOpen /\ DeviceOpenOk /\ FailedInit # 0)
        => /\ returned.result.channel = can_channels[FailedInit]
           /\ "status" \in DOMAIN returned.result
           /\ returned.result.status = returned.drv.init[FailedInit]

\* the frame fits the 8-byte data array, so the poller forwards it
Fits(f) == f.len <= DATA_CAPACITY
Forwarded(t) == SelectSeq(threads[t].frames, Fits)

C20_Original ==
    family = "A" =>
        \A t \in DOMAIN threads :
            /\ Len(threads[t].data) = Len(threads[t].frames)
            /\ \A i \in DOMAIN threads[t].data :
                  /\ threads[t].data[i].channel = threads[t].channel
                  /\ threads[t].data[i].id = threads[t].frames[i].id

\* the native poll call of some poller has just returned
PollReturned == returned.name = "poll"

\* C21: a poll that returned no frame adds no record to the poller's log
\* sink and none to its data sink, leaves the poller at its loop condition
\* and leaves every other poller alone.
C21_EmptyPoll ==
    [][(returned'.name = "poll" /\ ~returned'.result.got) =>
          LET t == returned'.result.thread
          IN  /\ threads'[t].logs = threads[t].logs
              /\ threads'[t].data = threads[t].data
              /\ threads'[t].pc = "check"
              /\ \A u \in DOMAIN threads \ {t} : threads'[u] = threads[u]]_vars

\* a poller that had forwarded a frame polls again and gets none
C21_Witness ==
    /\ PollReturned /\ ~returned.result.got
    /\ threads[returned.result.thread].pc = "check"
    /\ threads[returned.result.thread].data # <<>>

IsInitCall(c) == c.fn = "vci_init_can"
IsFailureRecord(rec) == rec.msg \in FailureRecords
StartRecords == {"CAN Ch started", "CAN start failed on channel"}
IsStartRecord(rec) == rec.msg \in StartRecords
OpenCalls == {i \in DOMAIN returned.calls : IsOpenCall(returned.calls[i])}
\* the vci_init_can calls of the returned open_device call, in issue order
InitCalls == SelectSeq(returned.calls, IsInitCall)
FailedCfgs == {j \in DOMAIN returned.drv.cfg : returned.drv.cfg[j] # Success}

\* C23: one open_device call issues the device open exactly once and at
\* most one init per channel-list entry, and sends one failure record per
\* failed native call (CanApp stops at its first failure); one
\* start_receiving call spawns one poller per entry, and a poller issues its
\* start-channel call at most once.
C23_NoRetry ==
    /\ LastOpen =>
          /\ Cardinality(OpenCalls) = 1
          /\ Len(InitCalls) <= Len(can_channels)
          /\ \A i \in DOMAIN InitCalls : InitCalls[i].channel = can_channels[i]
          /\ Len(SelectSeq(returned.logs, IsFailureRecord)) =
                IF family = "A" THEN (IF returned.result.ok THEN 0 ELSE 1)
                ELSE IF ~DeviceOpenOk THEN 1 ELSE Cardinality(FailedCfgs)
    /\ returned.name = "start_receiving" =>
          \A i \in DOMAIN can_channels :
              threads[Len(threads) - Len(can_channels) + i].channel = can_channels[i]
    /\ \A t \in DOMAIN threads :
          Len(SelectSeq(threads[t].logs, IsStartRecord)) <= 1

\* a failed device open that directly follows another open_device call
C23_Witness ==
    /\ LastOpen /\ returned.again /\ family = "A" /\ ~DeviceOpenOk
    /\ Cardinality(OpenCalls) = 1
    /\ Len(SelectSeq(returned.logs, IsFailureRecord)) = 1

\* the PcanApp script with the outcomes of the CanApp script drv: the same
\* success or failure of the device open and of the board-info read
PcanError == CHOOSE st \in Statuses : st # PCAN_ERROR_OK
PcanTwin(drv) ==
    Drv(IF drv.open = SUCCESS THEN PCAN_ERROR_OK ELSE PcanError,
        <<>>,
        IF drv.board = SUCCESS THEN PCAN_ERROR_OK ELSE PcanError,
        <<PCAN_ERROR_OK, PCAN_ERROR_OK, PCAN_ERROR_OK>>,
        PCAN_ERROR_OK)

\* C24: an open_device call of a one-channel CanApp session whose channel
\* init succeeded and the open_device call of a PcanApp session with the same
\* driver outcomes agree on whether the call returned an error and on the
\* value stored into is_initialized.
C24_Original ==
    (LastOpen /\ family = "A" /\ Len(can_channels) = 1 /\ InitsOk) =>
        LET twin == PcanApp_open_device(<<PCAN_USBBUS1>>, PcanTwin(returned.drv))
        IN  /\ twin.result.ok = returned.result.ok
            /\ twin.init = "true" => is_can_initialized

\* the number of channel-list entries open_device gets to: up to and
\* including the first one whose init fails
InitsIssued == IF FailedInit = 0 THEN Len(can_channels) ELSE FailedInit

\* C25: the init calls of a CanApp open_device call are those of the
\* channel-list entries in declaration order, up to and including the first
\* one that fails; none is issued when the device open failed.
C25_InitInOrder ==
    (LastOpen /\ family = "A") =>
        IF DeviceOpenOk
        THEN InitCalls = [i \in 1..InitsIssued |->
                             CallCh("vci_init_can", can_channels[i])]
        ELSE InitCalls = <<>>

\* the first of two different channels fails: the second is never initialized
C25_Witness ==
    /\ LastOpen /\ family = "A" /\ DeviceOpenOk
    /\ Len(can_channels) = 2 /\ can_channels[1] # can_channels[2]
    /\ FailedInit = 1 /\ Len(InitCalls) = 1

\* C26: every poller that has been spawned has its start-channel call behind
\* it: start_receiving issues the start calls before it spawns.
C26_Original == \A t \in DOMAIN threads : threads[t].pc # "start"

\* C27: a poller whose start-channel call failed is handed no frame, has
\* sent no data record and no "stopped receiving" record, and no poll call
\* of it ever returns.
C27_FailedStartNeverPolls ==
    \A t \in DOMAIN threads :
        StartFailed(t) =>
            /\ threads[t].frames = <<>>
            /\ threads[t].data = <<>>
            /\ ~HasStopped(t)
            /\ ~(PollReturned /\ returned.result.thread = t)

\* the first channel failed to start while the second one receives a frame
C27_Witness ==
    /\ Len(threads) = 2 /\ StartFailed(1) /\ threads[1].pc = "done"
    /\ PollReturned /\ returned.result.thread = 2 /\ returned.result.got
    /\ threads[2].data # <<>>

\* C28: under fair scheduling a stop_receiving call that has cleared the
\* running flag returns: every poller exits and every join completes.
C28_StopTerminates == (pc = "joining") ~> (pc = "idle")

\* stop_receiving waits for two pollers, one of them inside a poll call
C28_Witness ==
    /\ pc = "joining" /\ Len(join_handles) = 2
    /\ \E t \in Live : threads[t].pc = "recv"

\* C29: while the running flag is cleared no poller begins a poll: a poll
\* call that returns leaves its poller at the loop condition (or panicked),
\* a poller that evaluates the loop condition exits, and no poller enters
\* the poll call.  So a poller completes at most the one poll it had begun.
C29_AtMostOneMorePoll ==
    [][~receiving =>
          \A t \in DOMAIN threads :
              /\ (returned'.name = "poll" /\ returned'.result.thread = t) =>
                    threads'[t].pc \in {"check", "panicked"}
              /\ (threads[t].pc = "check" /\ threads'[t] # threads[t]) =>
                    threads'[t].pc = "done"
              /\ threads'[t].pc = "recv" => threads'[t] = threads[t]]_vars

\* stop_receiving has cleared the flag and a poll begun before just returned
C29_Witness ==
    /\ pc = "joining" /\ ~receiving
    /\ PollReturned /\ threads[returned.result.thread].pc = "check"

\* the native calls that open, initialize or close the device
IsDeviceCall(c) == IsOpenCall(c) \/ IsCloseCall(c) \/ IsInitCall(c)

\* C30: from its first statement to its return, stop_receiving leaves
\* is_can_initialized, the channel list and the device as they were; the call
\* that returns has issued no native call and sent no record, and it leaves
\* the session not receiving, with no handle and no live poller; whatever
\* native call is issued while it runs is a poller's poll.
C30_StopFrame ==
    [][(pc = "joining" \/ pc' = "joining") =>
          /\ is_can_initialized' = is_can_initialized
          /\ can_channels' = can_channels
          /\ family' = family
          /\ dev_open' = dev_open
          /\ opened_ok' = opened_ok
          /\ \A i \in DOMAIN returned'.calls : ~IsDeviceCall(returned'.calls[i])
          /\ returned'.name = "stop_receiving" =>
                /\ returned'.calls = <<>>
                /\ returned'.logs = <<>>
                /\ ~receiving'
                /\ join_handles' = <<>>
                /\ \A t \in DOMAIN threads' : threads'[t].pc \in {"done", "panicked"}]_vars

\* stop_receiving returned on an initialized session whose pollers had run
C30_Witness ==
    /\ returned.name = "stop_receiving"
    /\ is_can_initialized /\ dev_open
    /\ threads # <<>>
    /\ \E t \in DOMAIN threads : threads[t].pc = "done" /\ Began(t)

\* a sink whose receiver has been dropped
Detached == ~sinks.log \/ ~sinks.data

\* C22: with a sink detached every step is the step the session takes with
\* both sinks attached.  The caller is never stopped by an operation: it is
\* idle or joining afterwards.  A poller panics only on the frame longer than
\* the data array, and exits only at its loop condition with the flag cleared
\* or on a failed start-channel call.  A poll that handed over a frame that
\* fits is followed by the send on data_tx and by the loop condition, a
\* start-channel call that succeeded and the PCAN poller's first statement by
\* the send on log_tx and the loop condition.
C22_DetachedSinkIsNoOp ==
    [][Detached =>
          /\ pc' \in {"idle", "joining"}
          /\ \A t \in DOMAIN threads :
                LET th == threads[t]
                    tn == threads'[t]
                    polled == returned'.name = "poll" /\ returned'.result.thread = t
                IN  /\ (tn.pc = "panicked" /\ th.pc # "panicked") =>
                          /\ polled
                          /\ tn.frames[Len(tn.frames)].len > DATA_CAPACITY
                    /\ (tn.pc = "done" /\ th.pc # "done") =>
                          \/ th.pc = "check" /\ ~receiving
                          \/ th.pc = "start" /\ Len(tn.logs) = Len(th.logs) + 1
                    /\ (polled /\ returned'.result.got
                          /\ tn.frames[Len(tn.frames)].len <= DATA_CAPACITY) =>
                          /\ tn.pc = "check"
                          /\ Len(tn.data) = Len(th.data) + 1
                    /\ (th.pc = "ready" /\ tn # th) =>
                          tn.pc = "check" /\ Len(tn.logs) = Len(th.logs) + 1
                    /\ (th.pc = "start" /\ tn # th) =>
                          tn.pc \in {"check", "done"} /\ Len(tn.logs) = Len(th.logs) + 1]_vars

\* both receivers are gone; a poller has just sent a frame record on data_tx
\* and is back at its loop condition
C22_Witness ==
    /\ ~sinks.log /\ ~sinks.data
    /\ PollReturned /\ returned.result.got
    /\ threads[returned.result.thread].pc = "check"
    /\ threads[returned.result.thread].data # <<>>

\* the records of a CanApp open_device whose every call succeeded
OpenedRecords ==
    <<Log("Device opened successfully")>>
    \o [i \in 1..Len(can_channels) |-> LogCh("CAN Ch initialized", can_channels[i])]
    \o <<Log("Board info")>>

\* C31: when the device open and every channel init of a CanApp open_device
\* succeeded, is_can_initialized holds true when the call returns whatever the
\* board-info read answered (the store precedes the read), the read is the
\* last native call and the only read, and after a read that succeeded the
\* call returns Ok and has sent: device opened, one initialized record per
\* channel in declaration order, the board-info summary.
C31_OpenOrder ==
    (LastOpen /\ family = "A" /\ DeviceOpenOk /\ InitsOk) =>
        /\ is_can_initialized
        /\ returned.calls[Len(returned.calls)] = Call("vci_read_board_info")
        /\ \A i \in 1..(Len(returned.calls) - 1) :
              returned.calls[i].fn \notin BoardReadCalls
        /\ BoardOk => returned.result.ok /\ returned.logs = OpenedRecords

\* a two-channel CanApp session has just been opened with full success
C31_Witness ==
    /\ LastOpen /\ family = "A" /\ returned.result.ok
    /\ Len(can_channels) = 2 /\ can_channels[1] # can_channels[2]
    /\ returned.logs = OpenedRecords
    /\ is_can_initialized

\* C32: a CanApp open_device whose device-open call failed returns the error
\* carrying the status, has sent that one record, has issued the open call
\* and no other native call, and leaves is_can_initialized as it was.
C32_OpenFailureFrame ==
    [][(returned'.name = "open_device" /\ family = "A"
          /\ returned'.drv.open # SUCCESS) =>
          /\ ~returned'.result.ok
          /\ returned'.result.status = returned'.drv.open
          /\ returned'.logs =
                <<LogSt("Device open failed, Error Code", returned'.drv.open)>>
          /\ returned'.calls = <<Call("vci_open_device")>>
          /\ is_can_initialized' = is_can_initialized]_vars

\* the device open failed on a session that was initialized before the call
C32_Witness ==
    /\ LastOpen /\ family = "A" /\ ~DeviceOpenOk
    /\ ~returned.result.ok
    /\ is_can_initialized

\* C33: when stop_receiving returns, the handle collection is empty and no
\* poller runs; a start_receiving that finds the collection empty registers
\* exactly one new poller per channel-list entry, in order, each at its first
\* statement, next to pollers that have all terminated; and a poller that
\* runs is always a registered one.
C33_Repeatable ==
    [][/\ returned'.name = "stop_receiving" =>
             /\ join_handles' = <<>>
             /\ \A t \in DOMAIN threads' : threads'[t].pc \in {"done", "panicked"}
       /\ (returned'.name = "start_receiving" /\ join_handles = <<>>) =>
             /\ \A t \in DOMAIN threads :
                   threads'[t] = threads[t] /\ Terminated(t)
             /\ join_handles' =
                   [i \in 1..Len(can_channels) |-> Len(threads) + i]
             /\ \A i \in 1..Len(can_channels) :
                   threads'[Len(threads) + i] = NewThread(can_channels[i])
             /\ Len(threads') = Len(threads) + Len(can_channels)
       /\ \A t \in DOMAIN threads' :
             threads'[t].pc \notin {"done", "panicked"} =>
                \E i \in DOMAIN join_handles' : join_handles'[i] = t]_vars

\* the second start_receiving of a session, after a poller of the first one
\* had run and been joined
C33_Witness ==
    /\ returned.name = "start_receiving"
    /\ Len(threads) = 2 /\ join_handles = <<2>>
    /\ threads[1].pc = "done" /\ HasStopped(1)
    /\ threads[2] = NewThread(can_channels[1])

\* what stop_receiving may touch besides the flag, the handles and the caller
StopFrame ==
    UNCHANGED <<family, can_channels, is_can_initialized, threads, dev_open,
                opened_ok, touched, sinks>>

\* C34: stop_receiving called with no handle registered clears the flag and
\* touches nothing else, and its next step is its return, with no record
\* sent, no native call issued and the flag false; a stop_receiving that
\* follows a stop_receiving changes neither the flag nor the handles.
C34_StopIdempotent ==
    [][/\ (pc = "idle" /\ pc' = "joining" /\ join_handles = <<>>) =>
             /\ ~receiving' /\ join_handles' = <<>> /\ StopFrame
             /\ last_method = "stop_receiving" => receiving' = receiving
       /\ (pc = "joining" /\ join_handles = <<>>) =>
             /\ returned'.name = "stop_receiving" /\ pc' = "idle"
             /\ returned'.logs = <<>> /\ returned'.calls = <<>>
             /\ ~receiving' /\ join_handles' = <<>> /\ StopFrame
       /\ (returned'.name = "stop_receiving" /\ returned'.again) =>
             receiving' = receiving /\ join_handles' = join_handles]_vars

\* a fresh session on which stop_receiving has returned twice
C34_Witness ==
    /\ returned.name = "stop_receiving" /\ returned.again
    /\ threads = <<>> /\ join_handles = <<>> /\ ~receiving
    /\ returned.logs = <<>>

\* C35: no poller has terminated abnormally, every frame handed to a poller
\* left it polling or at its normal exit, and every payload forwarded on
\* data_tx has at most DATA_CAPACITY bytes.
C35_Original ==
    \A t \in DOMAIN threads :
        /\ threads[t].pc # "panicked"
        /\ threads[t].frames # <<>> => threads[t].pc \in {"check", "recv", "done"}
        /\ \A i \in DOMAIN threads[t].data : threads[t].data[i].len <= DATA_CAPACITY

\* C39: a baud field holding a rate the GUI offers for it has a table entry:
\* from_u32 yields Some, every lookup of it yields a rate and an encoding, and
\* what start_can resolves it to is that entry, the unwrap_or argument
\* playing no part.
C39_GuiRatesHaveEntries ==
    (lookup.field \in BaudFields /\ lookup.baud \in SupportedBauds(lookup.field)) =>
        LET rate == from_u32(lookup.field, lookup.baud)
        IN  /\ rate # None
            /\ unwrap_or(rate, "fallback") # "fallback"
            /\ \A i \in DOMAIN lookup.calls :
                  lookup.calls[i].rate = rate /\ lookup.calls[i].encoded # None
            /\ lookup.resolved # None => lookup.resolved = rate

\* start_can has resolved the offered rate 47 of the PCAN field, an entry
\* other than the field's fallback
C39_Witness ==
    /\ lookup.field = "pcan_baud" /\ lookup.baud = 47
    /\ lookup.resolved = Some("Baud47K")
    /\ lookup.resolved[1] # FallbackRate(lookup.field)

\* the records of configure_channel that report a failed call
CfgFailureRecords ==
    {"Failed to enable message filter.", "Failed to disable listen-only mode.",
     "Failed to enable Bus-Off auto-reset."}

\* C40: a PcanApp open_device first issues CAN_Uninitialize(PCAN_NONEBUS),
\* then CAN_Initialize of its channel.  When that fails it returns the error
\* and issues nothing more.  When it succeeds, is_can_initialized is true on
\* return, the three configuration calls follow, the call returns Ok whatever
\* they answered, and each that failed has left one failure record.
C40_PcanOpen ==
    (LastOpen /\ family = "B") =>
        /\ returned.calls[1] = CallCh("can_uninitialize", PCAN_NONEBUS)
        /\ returned.calls[2] = CallCh("can_initialize", can_channels[1])
        /\ \A i \in 3..Len(returned.calls) : returned.calls[i].fn = "can_set_value"
        /\ IF DeviceOpenOk
           THEN /\ returned.result.ok
                /\ is_can_initialized
                /\ Len(returned.calls) = 5
                /\ Len(returned.logs) = 4
                /\ returned.logs[1] = LogCh("PCAN channel initialized", can_channels[1])
                /\ \A i \in 1..3 :
                      returned.logs[i + 1].msg \in CfgFailureRecords
                         <=> returned.drv.cfg[i] # PCAN_ERROR_OK
           ELSE /\ ~returned.result.ok
                /\ Len(returned.calls) = 2

\* a PcanApp open_device has returned Ok although its three configuration
\* calls failed
C40_Witness ==
    /\ LastOpen /\ family = "B" /\ DeviceOpenOk
    /\ \A i \in 1..3 : returned.drv.cfg[i] # PCAN_ERROR_OK
    /\ returned.result.ok /\ is_can_initialized
    /\ \A i \in 2..4 : returned.logs[i].msg \in CfgFailureRecords

\* what a GUI action that is a no-op leaves alone: the GUI's fields, the
\* session, its pollers and the device
GuiNoOp ==
    /\ returned'.calls = <<>> /\ returned'.logs = <<>>
    /\ UNCHANGED <<gui, family, can_channels, is_can_initialized, receiving,
                   join_handles, threads, pc, dev_open>>

\* C36: a Start is refused exactly when is_receiving is set, and a refused
\* Start is a no-op; a Stop with is_receiving clear is a no-op and does not
\* begin stop_receiving; a Start whose open_device failed leaves is_receiving
\* clear and has spawned no poller, so the next Start is not refused.
C36_GuiGuards ==
    [][/\ (returned'.name = "start_can" /\ ~returned'.result.accepted) =>
             gui.is_receiving /\ GuiNoOp
       /\ (pc = "idle" /\ gui.is_receiving) => pc' # "opening"
       /\ (pc = "idle" /\ ~gui.is_receiving) =>
             /\ pc' # "joining"
             /\ returned'.name = "stop_can" =>
                   ~returned'.result.accepted /\ GuiNoOp
       /\ (returned'.name = "start_can" /\ returned'.result.accepted
             /\ ~returned'.result.ok) =>
             ~gui'.is_receiving /\ threads' = threads /\ pc' = "idle"]_vars

\* a Start has been accepted and has spawned its pollers right after a Start
\* whose open_device failed
C36_Witness ==
    /\ returned.name = "start_can" /\ returned.again
    /\ returned.result.accepted /\ returned.result.ok
    /\ gui.is_receiving /\ threads # <<>>

\* C37: a step that issues a driver close call (close_device in stop_can,
\* the rollback close and the PCAN force-close in open_device) is taken with
\* every poller spawned so far terminated.
C37_CloseAfterPollers ==
    [][(\E i \in DOMAIN returned'.calls : IsCloseCall(returned'.calls[i])) =>
          \A t \in DOMAIN threads : Terminated(t)]_vars

\* stop_can has closed the device of a session whose pollers had run
C37_Witness ==
    /\ returned.name = "stop_can" /\ returned.result.accepted
    /\ \E i \in DOMAIN returned.calls : IsCloseCall(returned.calls[i])
    /\ Len(threads) = 2
    /\ \A t \in DOMAIN threads : threads[t].pc = "done" /\ Began(t)

\* C38: the log buffer and the data buffer never hold more entries than
\* their capacity.
C38_Original ==
    /\ gui.logs <= LOG_BUFFER_CAPACITY
    /\ gui.data <= DATA_BUFFER_CAPACITY

====
